---- MODULE Spec2Model ----
(***************************************************************************)
(* Model of the onlyargs derive macro (onlyargs_derive/src/lib.rs):        *)
(*   - the parser it generates (fn parse), run on a token sequence;        *)
(*   - the short-name de-duplication pass of derive_parser;                *)
(*   - the help layout (get_max_width, to_help).                           *)
(* Identifiers, tokens and rendered text are sequences of one-character    *)
(* strings, so that formatting and matching are computed, not assumed.     *)
(***************************************************************************)
EXTENDS Integers, Sequences, FiniteSets, TLC

\* Longest token sequence handed to parse.
MaxArgs == 3

None == <<>>
Some(x) == <<x>>

Min(S) == CHOOSE x \in S : \A y \in S : x <= y

(***************************************************************************)
(* Characters and names                                                    *)
(***************************************************************************)
UpperCase ==
    <<"A","B","C","D","E","F","G","H","I","J","K","L","M",
      "N","O","P","Q","R","S","T","U","V","W","X","Y","Z">>
LowerCase ==
    <<"a","b","c","d","e","f","g","h","i","j","k","l","m",
      "n","o","p","q","r","s","t","u","v","w","x","y","z">>

\* u8::to_ascii_lowercase on the upper-case letters.
ToLower ==
    [c \in {UpperCase[i] : i \in 1..Len(UpperCase)} |->
        LowerCase[CHOOSE i \in 1..Len(UpperCase) : UpperCase[i] = c]]

make_ascii_lowercase(c) == IF c \in DOMAIN ToLower THEN ToLower[c] ELSE c

\* ident.to_string().replace('_', "-") followed by make_ascii_lowercase.
to_arg_name(ident) ==
    [i \in 1..Len(ident) |->
        make_ascii_lowercase(IF ident[i] = "_" THEN "-" ELSE ident[i])]

\* format!("--{}", to_arg_name(name))
LongArg(name) == <<"-", "-">> \o to_arg_name(name)

\* format!("-{ch}")
ShortArg(ch) == <<"-", ch>>

(***************************************************************************)
(* Schemas handed to the generated parser                                  *)
(***************************************************************************)
id_user    == <<"u","s","e","r">>
id_out_dir == <<"o","u","t","_","d","i","r">>
id_verbose == <<"v","e","r","b","o","s","e">>
id_nums    == <<"n","u","m","s">>

PositionalTypes == {"Number", "OsString"}

\* struct Args { user: String | Option<String>,
\*               out_dir: PathBuf | Option<PathBuf>,
\*               verbose: bool, [nums: Vec<T>] }
ArgumentStruct(user_optional, out_optional, positional) ==
    [ flags      |-> << [name |-> id_verbose, short |-> Some("v")] >>,
      options    |-> << [name |-> id_user, short |-> Some("u"),
                         ty_help |-> "String", optional |-> user_optional],
                        [name |-> id_out_dir, short |-> Some("o"),
                         ty_help |-> "Path", optional |-> out_optional] >>,
      positional |-> positional ]

Schemas ==
    { ArgumentStruct(u, o, p) :
        u \in BOOLEAN, o \in {TRUE},
        p \in {None} \cup { Some([name |-> id_nums, ty_help |-> t]) :
                              t \in PositionalTypes } }
    \cup
    { ArgumentStruct(FALSE, FALSE, p) :
        p \in {None} \cup { Some([name |-> id_nums, ty_help |-> t]) :
                              t \in PositionalTypes } }

(***************************************************************************)
(* Raw tokens (OsString).  InvalidByte stands for a byte that makes the    *)
(* token invalid UTF-8.                                                    *)
(***************************************************************************)
InvalidByte == "\\xFF"

Tokens ==
    { <<"-","-","u","s","e","r">>,
      <<"-","o">>,
      <<"-","-","v","e","r","b","o","s","e">>,
      <<"-","-">>,
      <<"-","-","h","e","l","p">>,
      <<"-","V">>,
      <<"5">>,
      <<"-","x">>,
      <<InvalidByte>> }

ArgLists == UNION { [1..n -> Tokens] : n \in 0..MaxArgs }

\* OsStr::to_str: Some(str) when the token is valid UTF-8, else None.
to_str(arg) ==
    IF \E i \in 1..Len(arg) : arg[i] = InvalidByte THEN None ELSE Some(arg)

(***************************************************************************)
(* Value coercion (onlyargs::extensions), on Option<OsString>: None is a   *)
(* missing token.  A result is Ok(v) or Err(e).                            *)
(***************************************************************************)
Ok(v)  == [ok |-> TRUE, v |-> v]
Err(e) == [ok |-> FALSE, e |-> e]

POSITIONAL == <<"<POSITIONAL>">>

Digits == <<"0","1","2","3","4","5","6","7","8","9">>
IsDigit(c) == \E i \in 1..Len(Digits) : Digits[i] = c
DigitVal(c) == (CHOOSE i \in 1..Len(Digits) : Digits[i] = c) - 1

RECURSIVE DecVal(_)
DecVal(s) ==
    IF s = <<>> THEN 0
    ELSE DecVal(SubSeq(s, 1, Len(s) - 1)) * 10 + DigitVal(s[Len(s)])

\* str::parse::<i32>: optional sign, at least one digit, in range.
ParseI32(s) ==
    LET signed == Len(s) > 0 /\ s[1] \in {"-", "+"}
        body   == IF signed THEN Tail(s) ELSE s
        val    == IF signed /\ s[1] = "-" THEN 0 - DecVal(body) ELSE DecVal(body)
    IN  IF /\ body # <<>>
           /\ \A i \in 1..Len(body) : IsDigit(body[i])
           /\ val >= 0 - 2147483647 - 1
           /\ val <= 2147483647
        THEN Some(val) ELSE None

parse_str(opt, name) ==
    IF opt = None THEN Err(<<"MissingOptionValue", name>>)
    ELSE IF to_str(opt[1]) = None THEN Err(<<"InvalidValue", name, opt[1]>>)
    ELSE Ok(opt[1])

parse_osstr(opt, name) ==
    IF opt = None THEN Err(<<"MissingOptionValue", name>>) ELSE Ok(opt[1])

parse_path(opt, name) ==
    IF opt = None THEN Err(<<"MissingOptionValue", name>>) ELSE Ok(opt[1])

parse_int(opt, name) ==
    LET s == parse_str(opt, name)
    IN  IF ~s.ok THEN s
        ELSE IF ParseI32(s.v) = None THEN Err(<<"InvalidValue", name, opt[1]>>)
        ELSE Ok(ParseI32(s.v)[1])

\* Option<T>::required(name)
required(opt, name) ==
    IF opt = None THEN Err(<<"MissingRequiredArgument", name>>) ELSE Ok(opt[1])

\* The `value` expression the macro picks for a field of type ty_help.
Coerce(ty_help, opt, name) ==
    CASE ty_help = "Number"   -> parse_int(opt, name)
      [] ty_help = "OsString" -> parse_osstr(opt, name)
      [] ty_help = "Path"     -> parse_path(opt, name)
      [] ty_help = "String"   -> parse_str(opt, name)

(***************************************************************************)
(* The generated parser                                                    *)
(***************************************************************************)
VARIABLES
    schema,     \* the struct the parser was derived for
    args,       \* the Vec<OsString> given to parse
    it,         \* number of tokens the iterator `args` has yielded
    pc,         \* "scan" (while let), "drain" (for arg in args), "break", "done"
    flagVars,   \* flagVars[i]: the `let mut` of user flag i
    optVars,    \* optVars[i]: the `let mut` of option i, None or Some(value)
    posVar,     \* the positional vector
    result,     \* <<"Running">>, <<"Ok", record>>, <<"Err", error>>, <<"Exit", what>>
    trace,      \* trace[j]: what became of token j
    fields,     \* the struct's flag and option fields, in declaration order
    dupes,      \* the HashMap<char, &Ident> of the de-dupe pass
    dk,         \* number of arguments the current de-dupe loop has visited
    dpc,        \* "flags", "options" (the two loops), "done"
    compiled,   \* <<"Running">>, <<"Ok">>, <<"Err", error>>
    views,      \* the ArgViews of one help section (Flags or Options)
    max_width,  \* None until get_max_width has run
    hk,         \* number of entries rendered
    help        \* help[i]: the text to_help returned for views[i]

parseVars  == <<schema, args, it, pc, flagVars, optVars, posVar, result, trace>>
dedupeVars == <<fields, dupes, dk, dpc, compiled>>
helpVars   == <<views, max_width, hk, help>>
vars       == <<parseVars, dedupeVars, helpVars>>

HasPositional == schema.positional # None

FlagArgs(flag) ==
    {LongArg(flag.name)} \cup
    (IF flag.short = None THEN {} ELSE {ShortArg(flag.short[1])})

OptionArgs(opt) ==
    {LongArg(opt.name)} \cup
    (IF opt.short = None THEN {} ELSE {ShortArg(opt.short[1])})

HelpArgs    == {<<"-","-","h","e","l","p">>, <<"-","h">>}
VersionArgs == {<<"-","-","v","e","r","s","i","o","n">>, <<"-","V">>}
Sentinel    == <<"-","-">>

\* The arm of `match arg.to_str()` taken for token arg: the first arm, in
\* the order the macro emits them, whose pattern matches.
Arm(arg) ==
    LET s  == to_str(arg)
        fs == {i \in 1..Len(schema.flags) :
                 s # None /\ s[1] \in FlagArgs(schema.flags[i])}
        os == {i \in 1..Len(schema.options) :
                 s # None /\ s[1] \in OptionArgs(schema.options[i])}
    IN  CASE s # None /\ s[1] \in HelpArgs    -> <<"help">>
          [] s # None /\ s[1] \in VersionArgs -> <<"version">>
          [] fs # {}                          -> <<"flag", Min(fs)>>
          [] os # {}                          -> <<"option", Min(os)>>
          [] s = Some(Sentinel)               -> <<"sentinel">>
          [] s # None /\ HasPositional        -> <<"positional">>
          [] OTHER                            -> <<"unknown">>

InitParse ==
    /\ schema \in Schemas
    /\ args \in ArgLists
    /\ it = 0
    /\ pc = "scan"
    /\ flagVars = [i \in 1..Len(schema.flags) |-> FALSE]
    /\ optVars = [i \in 1..Len(schema.options) |-> None]
    /\ posVar = <<>>
    /\ result = <<"Running">>
    /\ trace = [j \in 1..Len(args) |-> "unread"]
    \* the macro's own passes are over
    /\ fields = <<>>
    /\ dupes = <<>>
    /\ dk = 0
    /\ dpc = "done"
    /\ compiled = <<"Running">>
    /\ views = <<>>
    /\ max_width = Some(0)
    /\ hk = 0
    /\ help = <<>>

\* while let Some(arg) = args.next() { match arg.to_str() { .. } }
Scanning == pc = "scan" /\ it < Len(args)

\* Some("--help") | Some("-h") => Self::help()
MatchHelp ==
    /\ Scanning
    /\ Arm(args[it + 1]) = <<"help">>
    /\ it' = it + 1
    /\ trace' = [trace EXCEPT ![it + 1] = "help"]
    /\ result' = <<"Exit", "help">>
    /\ pc' = "done"
    /\ UNCHANGED <<schema, args, flagVars, optVars, posVar>>
    /\ UNCHANGED <<dedupeVars, helpVars>>

\* Some("--version") | Some("-V") => Self::version()
MatchVersion ==
    /\ Scanning
    /\ Arm(args[it + 1]) = <<"version">>
    /\ it' = it + 1
    /\ trace' = [trace EXCEPT ![it + 1] = "version"]
    /\ result' = <<"Exit", "version">>
    /\ pc' = "done"
    /\ UNCHANGED <<schema, args, flagVars, optVars, posVar>>
    /\ UNCHANGED <<dedupeVars, helpVars>>

\* Some("--name") | Some("-n") => { name = true; }
MatchFlag ==
    /\ Scanning
    /\ Arm(args[it + 1])[1] = "flag"
    /\ it' = it + 1
    /\ trace' = [trace EXCEPT ![it + 1] = "flag"]
    /\ flagVars' = [flagVars EXCEPT ![Arm(args[it + 1])[2]] = TRUE]
    /\ UNCHANGED <<schema, args, pc, optVars, posVar, result>>
    /\ UNCHANGED <<dedupeVars, helpVars>>

\* args.next() after n tokens were yielded.
args_next(n) == IF n < Len(args) THEN Some(args[n + 1]) ELSE None

ValueConsumed_Peek(n) == n

\* Tokens yielded once args.next() has run after n tokens were yielded.
ValueConsumed(n) == IF n < Len(args) THEN n + 1 ELSE n

OptionValue_OrDefault(i, next, name) ==
    IF next = None THEN Ok(<<>>)
    ELSE Coerce(schema.options[i].ty_help, next, name)

\* Some(args.next().parse_x(name)?) for option i.
OptionValue(i, next, name) == Coerce(schema.options[i].ty_help, next, name)

\* Some(name @ "--name") | Some(name @ "-n") =>
\*     { name = Some(args.next().parse_x(name)?); }
MatchOption ==
    /\ Scanning
    /\ Arm(args[it + 1])[1] = "option"
    /\ LET i     == Arm(args[it + 1])[2]
           name  == args[it + 1]
           value == OptionValue(i, args_next(it + 1), name)
       IN  /\ it' = ValueConsumed(it + 1)
           /\ trace' = [j \in 1..Len(args) |->
                          IF j = it + 1 THEN "option"
                          ELSE IF j = it + 2 THEN "value"
                          ELSE trace[j]]
           /\ IF value.ok
              THEN /\ optVars' = [optVars EXCEPT ![i] = Some(value.v)]
                   /\ UNCHANGED <<pc, result>>
              ELSE /\ result' = <<"Err", value.e>>
                   /\ pc' = "done"
                   /\ UNCHANGED optVars
    /\ UNCHANGED <<schema, args, flagVars, posVar>>
    /\ UNCHANGED <<dedupeVars, helpVars>>

MatchSentinel_PushesSentinel ==
    /\ Scanning
    /\ Arm(args[it + 1]) = <<"sentinel">>
    /\ it' = it + 1
    /\ trace' = [trace EXCEPT ![it + 1] = "sentinel"]
    /\ pc' = IF HasPositional THEN "drain" ELSE "break"
    /\ posVar' = IF HasPositional /\ schema.positional[1].ty_help = "OsString"
                 THEN Append(posVar, args[it + 1]) ELSE posVar
    /\ UNCHANGED <<schema, args, flagVars, optVars, result>>
    /\ UNCHANGED <<dedupeVars, helpVars>>

MatchSentinel_Continue ==
    /\ Scanning
    /\ Arm(args[it + 1]) = <<"sentinel">>
    /\ it' = it + 1
    /\ trace' = [trace EXCEPT ![it + 1] = "sentinel"]
    /\ pc' = IF HasPositional THEN "drain" ELSE "scan"
    /\ UNCHANGED <<schema, args, flagVars, optVars, posVar, result>>
    /\ UNCHANGED <<dedupeVars, helpVars>>

\* With a positional field:  Some("--") => { for arg in args { .. } break; }
\* Without:                  Some("--") => break,
MatchSentinel ==
    /\ Scanning
    /\ Arm(args[it + 1]) = <<"sentinel">>
    /\ it' = it + 1
    /\ trace' = [trace EXCEPT ![it + 1] = "sentinel"]
    /\ pc' = IF HasPositional THEN "drain" ELSE "break"
    /\ UNCHANGED <<schema, args, flagVars, optVars, posVar, result>>
    /\ UNCHANGED <<dedupeVars, helpVars>>

\* One iteration of `for arg in args { name.push(value?); }`
DrainPositional ==
    /\ pc = "drain"
    /\ it < Len(args)
    /\ LET arg   == args[it + 1]
           value == Coerce(schema.positional[1].ty_help, Some(arg), POSITIONAL)
       IN  /\ it' = it + 1
           /\ trace' = [trace EXCEPT ![it + 1] = "drained"]
           /\ IF value.ok
              THEN /\ posVar' = Append(posVar, value.v)
                   /\ UNCHANGED <<pc, result>>
              ELSE /\ result' = <<"Err", value.e>>
                   /\ pc' = "done"
                   /\ UNCHANGED posVar
    /\ UNCHANGED <<schema, args, flagVars, optVars>>
    /\ UNCHANGED <<dedupeVars, helpVars>>

\* Some(_) => { name.push(value?); }
MatchPositional ==
    /\ Scanning
    /\ Arm(args[it + 1]) = <<"positional">>
    /\ LET arg   == args[it + 1]
           value == Coerce(schema.positional[1].ty_help, Some(arg), POSITIONAL)
       IN  /\ it' = it + 1
           /\ trace' = [trace EXCEPT ![it + 1] = "positional"]
           /\ IF value.ok
              THEN /\ posVar' = Append(posVar, value.v)
                   /\ UNCHANGED <<pc, result>>
              ELSE /\ result' = <<"Err", value.e>>
                   /\ pc' = "done"
                   /\ UNCHANGED posVar
    /\ UNCHANGED <<schema, args, flagVars, optVars>>
    /\ UNCHANGED <<dedupeVars, helpVars>>

MatchUnknown_Skip ==
    /\ Scanning
    /\ Arm(args[it + 1]) = <<"unknown">>
    /\ it' = it + 1
    /\ trace' = [trace EXCEPT ![it + 1] = "unknown"]
    /\ UNCHANGED <<schema, args, pc, flagVars, optVars, posVar, result>>
    /\ UNCHANGED <<dedupeVars, helpVars>>

\* _ => return Err(CliError::Unknown(arg))
MatchUnknown ==
    /\ Scanning
    /\ Arm(args[it + 1]) = <<"unknown">>
    /\ it' = it + 1
    /\ trace' = [trace EXCEPT ![it + 1] = "unknown"]
    /\ result' = <<"Err", <<"Unknown", args[it + 1]>>>>
    /\ pc' = "done"
    /\ UNCHANGED <<schema, args, flagVars, optVars, posVar>>
    /\ UNCHANGED <<dedupeVars, helpVars>>

MissingRequired_Unchecked == {}

\* The required options that were never set, in field order.
MissingRequired ==
    {i \in 1..Len(schema.options) :
        ~schema.options[i].optional /\ ~required(optVars[i], <<>>).ok}

\* Ok(Self { flags, name: name.required("--name")?, .., positional })
Finalize ==
    /\ \/ pc \in {"scan", "drain"} /\ it = Len(args)
       \/ pc = "break"
    /\ result' =
         IF MissingRequired # {}
         THEN <<"Err", required(optVars[Min(MissingRequired)],
                           LongArg(schema.options[Min(MissingRequired)].name)).e>>
         ELSE <<"Ok", [flags |-> flagVars, options |-> optVars,
                       positional |-> posVar]>>
    /\ pc' = "done"
    /\ UNCHANGED <<schema, args, it, flagVars, optVars, posVar, trace>>
    /\ UNCHANGED <<dedupeVars, helpVars>>

NextParse ==
    \/ MatchHelp
    \/ MatchVersion
    \/ MatchFlag
    \/ MatchOption
    \/ MatchSentinel
    \/ DrainPositional
    \/ MatchPositional
    \/ MatchUnknown
    \/ Finalize

(***************************************************************************)
(* derive_parser: the short-name de-duplication pass                       *)
(***************************************************************************)
\* Most flag and option fields a struct declares.
MaxFields == 2

id_help    == <<"h","e","l","p">>
id_version == <<"v","e","r","s","i","o","n">>
id_host    == <<"h","o","s","t">>

FieldNames == {id_user, id_verbose, id_host}
ShortNames == {None, Some("h"), Some("V"), Some("v"), Some("u")}

Field == [name : FieldNames, kind : {"flag", "option"}, short : ShortNames]

\* Field lists of a struct: field names are distinct.
FieldLists ==
    UNION { { f \in [1..n -> Field] :
                \A i, j \in 1..n : f[i].name = f[j].name => i = j } :
            n \in 0..MaxFields }

IsFlag(f)   == f.kind = "flag"
IsOption(f) == f.kind = "option"

\* ast.flags / ast.options: the bool fields and the valued fields, each in
\* declaration order.
ast_flags   == SelectSeq(fields, IsFlag)
ast_options == SelectSeq(fields, IsOption)

BuiltinFlags ==
    << [name |-> id_help,    kind |-> "flag", short |-> Some("h")],
       [name |-> id_version, kind |-> "flag", short |-> Some("V")] >>

flags_BuiltinsLast == ast_flags \o BuiltinFlags

\* let mut flags = vec![help, version]; flags.extend(ast.flags.into_iter());
flags == BuiltinFlags \o ast_flags

as_view(arg) == [name |-> arg.name, short |-> arg.short]

dedupe_NoInsert(d, arg) ==
    IF arg.short = None THEN Ok(d)
    ELSE LET ch == arg.short[1]
         IN  IF ch \in DOMAIN d
             THEN Err([at |-> arg.name, ch |-> ch, other |-> d[ch]])
             ELSE Ok(d)

\* fn dedupe: Err (span of arg.name, ch, other) when ch is owned already,
\* else Ok with arg.name recorded as the owner of ch.
dedupe(d, arg) ==
    IF arg.short = None THEN Ok(d)
    ELSE LET ch == arg.short[1]
         IN  IF ch \in DOMAIN d
             THEN Err([at |-> arg.name, ch |-> ch, other |-> d[ch]])
             ELSE Ok([c \in DOMAIN d \cup {ch} |->
                        IF c = ch THEN arg.name ELSE d[c]])

InitDedupe ==
    /\ fields \in FieldLists
    /\ dupes = <<>>
    /\ dk = 0
    /\ dpc = "flags"
    /\ compiled = <<"Running">>
    \* no help rendered, no parser run yet
    /\ views = <<>>
    /\ max_width = Some(0)
    /\ hk = 0
    /\ help = <<>>
    /\ schema = ArgumentStruct(TRUE, TRUE, None)
    /\ args = <<>>
    /\ it = 0
    /\ pc = "done"
    /\ flagVars = <<>>
    /\ optVars = <<>>
    /\ posVar = <<>>
    /\ result = <<"Running">>
    /\ trace = <<>>

\* for flag in &flags { dedupe(&mut dupes, flag.as_view()) }
DedupeFlag ==
    /\ dpc = "flags"
    /\ dk < Len(flags)
    /\ LET r == dedupe(dupes, as_view(flags[dk + 1]))
       IN  IF r.ok
           THEN /\ dupes' = r.v
                /\ dk' = dk + 1
                /\ UNCHANGED <<dpc, compiled>>
           ELSE /\ compiled' = <<"Err", r.e>>
                /\ dpc' = "done"
                /\ UNCHANGED <<dupes, dk>>
    /\ UNCHANGED <<fields, parseVars, helpVars>>

\* The flags loop ends; the options loop starts.
FlagsDone ==
    /\ dpc = "flags"
    /\ dk = Len(flags)
    /\ dpc' = "options"
    /\ dk' = 0
    /\ UNCHANGED <<fields, dupes, compiled, parseVars, helpVars>>

\* for opt in &ast.options { dedupe(&mut dupes, opt.as_view()) }
DedupeOption ==
    /\ dpc = "options"
    /\ dk < Len(ast_options)
    /\ LET r == dedupe(dupes, as_view(ast_options[dk + 1]))
       IN  IF r.ok
           THEN /\ dupes' = r.v
                /\ dk' = dk + 1
                /\ UNCHANGED <<dpc, compiled>>
           ELSE /\ compiled' = <<"Err", r.e>>
                /\ dpc' = "done"
                /\ UNCHANGED <<dupes, dk>>
    /\ UNCHANGED <<fields, parseVars, helpVars>>

\* Both loops passed: the macro goes on to emit the impl.
EmitParser ==
    /\ dpc = "options"
    /\ dk = Len(ast_options)
    /\ compiled' = <<"Ok">>
    /\ dpc' = "done"
    /\ UNCHANGED <<fields, dupes, dk, parseVars, helpVars>>

NextDedupe ==
    \/ DedupeFlag
    \/ FlagsDone
    \/ DedupeOption
    \/ EmitParser

(***************************************************************************)
(* Help layout                                                             *)
(***************************************************************************)
\* Most user entries in one help section.
MaxEntries == 2

\* 1 hyphen + 1 char + 1 trailing space.
SHORT_PAD == 3
\* 2 leading spaces + 2 hyphens + 2 trailing spaces.
LONG_PAD == 6

id_dry_run == <<"d","r","y","_","r","u","n">>
id_port    == <<"p","o","r","t">>

\* ArgType::as_str: the type hint shown after the long name.
as_str(ty_help) ==
    CASE ty_help = "Bool"   -> <<>>
      [] ty_help = "String" -> <<" ","<","s","t","r",">">>
      [] ty_help = "Path"   -> <<" ","<","p","a","t","h",">">>

Docs == { << <<"a">> >>, << <<"a">>, <<"b","c">> >> }

FlagViews ==
    { [name |-> n, short |-> s, ty_help |-> "Bool", doc |-> d] :
        n \in {id_verbose, id_host, id_dry_run},
        s \in {None, Some("x")},
        d \in Docs }

OptionViews ==
    { [name |-> n, short |-> s, ty_help |-> t, doc |-> d] :
        n \in {id_user, id_out_dir, id_port},
        s \in {None, Some("x")},
        t \in {"String", "Path"},
        d \in Docs }

DistinctLists(S) ==
    UNION { { f \in [1..n -> S] :
                \A i, j \in 1..n : f[i].name = f[j].name => i = j } :
            n \in 0..MaxEntries }

BuiltinViews ==
    << [name |-> id_help, short |-> Some("h"), ty_help |-> "Bool",
        doc |-> << <<"S","h","o","w">> >>],
       [name |-> id_version, short |-> Some("V"), ty_help |-> "Bool",
        doc |-> << <<"S","h","o","w">> >>] >>

\* The views of the Flags section (built-ins first) or of the Options section.
Sections ==
    { BuiltinViews \o f : f \in DistinctLists(FlagViews) }
    \cup DistinctLists(OptionViews)

Max(a, b) == IF a >= b THEN a ELSE b

\* " ".repeat(n)
Repeat(n) == [i \in 1..n |-> " "]

\* format!("{s:<width$}"): s, then spaces up to width characters.
PadRight(s, width) == s \o Repeat(width - Len(s))

\* lines.join(sep)
RECURSIVE Join(_, _)
Join(lines, sep) ==
    IF lines = <<>> THEN <<>>
    ELSE IF Len(lines) = 1 THEN lines[1]
    ELSE lines[1] \o sep \o Join(Tail(lines), sep)

\* iter.fold(0, |acc, view| acc.max(name.len() + ty.len() + short))
RECURSIVE get_max_width(_)
get_max_width(vs) ==
    IF vs = <<>> THEN 0
    ELSE LET view  == vs[Len(vs)]
             short == IF view.short = None THEN 0 ELSE SHORT_PAD
         IN  Max(get_max_width(SubSeq(vs, 1, Len(vs) - 1)),
                 Len(view.name) + Len(as_str(view.ty_help)) + short)

\* fn to_help: the text of one entry, newline-terminated.
to_help(arg, mw) ==
    LET name  == to_arg_name(arg.name)
        ty    == as_str(arg.ty_help)
        pad   == Repeat(mw + LONG_PAD)
        text  == Join(arg.doc, <<"\n">> \o pad)
    IN  IF arg.short # None
        THEN LET width == mw - SHORT_PAD - Len(name)
             IN  <<" ", " ", "-", arg.short[1], " ", "-", "-">> \o name
                   \o PadRight(ty, width) \o <<" ", " ">> \o text \o <<"\n">>
        ELSE <<" ", " ", "-", "-">> \o name
               \o PadRight(ty, mw) \o <<" ", " ">> \o text \o <<"\n">>

InitHelp ==
    /\ views \in Sections
    /\ max_width = None
    /\ hk = 0
    /\ help = <<>>
    \* no parser run; the de-dupe pass is over
    /\ fields = <<>>
    /\ dupes = <<>>
    /\ dk = 0
    /\ dpc = "done"
    /\ compiled = <<"Running">>
    /\ schema = ArgumentStruct(TRUE, TRUE, None)
    /\ args = <<>>
    /\ it = 0
    /\ pc = "done"
    /\ flagVars = <<>>
    /\ optVars = <<>>
    /\ posVar = <<>>
    /\ result = <<"Running">>
    /\ trace = <<>>

\* let max_width = get_max_width(..);
GetMaxWidth ==
    /\ max_width = None
    /\ max_width' = Some(get_max_width(views))
    /\ UNCHANGED <<views, hk, help, parseVars, dedupeVars>>

\* One step of  .map(|arg| to_help(arg.as_view(), max_width))
ToHelp ==
    /\ max_width # None
    /\ hk < Len(views)
    /\ help' = Append(help, to_help(views[hk + 1], max_width[1]))
    /\ hk' = hk + 1
    /\ UNCHANGED <<views, max_width, parseVars, dedupeVars>>

NextHelp ==
    \/ GetMaxWidth
    \/ ToHelp

(***************************************************************************)
(* Specifications.  Each runs one part; the other parts stay idle.         *)
(***************************************************************************)
\* The generated parser on a token sequence.
Spec == InitParse /\ [][NextParse]_vars

\* The de-duplication pass on a struct.
SpecDedupe == InitDedupe /\ [][NextDedupe]_vars

\* The help layout of one section.
SpecHelp == InitHelp /\ [][NextHelp]_vars

(***************************************************************************)
(* Properties of the generated parser (checked under Spec)                 *)
(***************************************************************************)
TokVerbose == <<"-","-","v","e","r","b","o","s","e">>
TokUser    == <<"-","-","u","s","e","r">>
TokHelp    == <<"-","-","h","e","l","p">>
TokBogus   == <<"-","x">>

\* Every spelling the parser recognises, the sentinel aside.
Spellings ==
    HelpArgs \cup VersionArgs
    \cup UNION { FlagArgs(schema.flags[i]) : i \in 1..Len(schema.flags) }
    \cup UNION { OptionArgs(schema.options[i]) : i \in 1..Len(schema.options) }

OptionSpellings ==
    UNION { OptionArgs(schema.options[i]) : i \in 1..Len(schema.options) }

OptionOf(tok) ==
    CHOOSE i \in 1..Len(schema.options) : tok \in OptionArgs(schema.options[i])

\* Index of the token read as the sentinel, 0 if none was.
SentinelAt ==
    IF \E j \in 1..Len(args) : trace[j] = "sentinel"
    THEN CHOOSE j \in 1..Len(args) : trace[j] = "sentinel"
    ELSE 0

\* Token j was handed to `match arg.to_str()`.
Dispatched(j) == trace[j] \notin {"unread", "value", "drained"}

PosCoerce(j) ==
    Coerce(schema.positional[1].ty_help, Some(args[j]), POSITIONAL)

RequiredOptions ==
    {i \in 1..Len(schema.options) : ~schema.options[i].optional}

\* What finalization must return from the current variables.
FinalResult ==
    IF \E i \in RequiredOptions : optVars[i] = None
    THEN "MissingRequiredArgument"
    ELSE "Ok"

\* C1: with a positional field, once `--` is read in Scanning state every
\* remaining token is coerced to the positional element type and appended
\* in input order, none is matched as flag, option, help or version, `--`
\* itself is not appended, and the first remaining token that fails
\* coercion yields InvalidValue naming <POSITIONAL> and that token.
C1_SentinelDrainsToPositional ==
    (HasPositional /\ SentinelAt # 0) =>
        LET k      == SentinelAt
            fails  == {j \in (k + 1)..Len(args) : ~PosCoerce(j).ok}
            stop   == IF fails = {} THEN Len(args) ELSE Min(fails)
            failed == fails # {} /\ it = stop
            pushed == IF failed THEN it - k - 1 ELSE it - k
            before == Cardinality({j \in 1..(k - 1) : trace[j] = "positional"})
        IN  /\ it >= k
            /\ it <= stop
            /\ Len(posVar) = before + pushed
            /\ \A n \in 1..pushed : posVar[before + n] = PosCoerce(k + n).v
            /\ \A j \in (k + 1)..Len(args) : trace[j] \in {"unread", "drained"}
            /\ \A i \in 1..Len(schema.flags) :
                 flagVars[i] =>
                   \E j \in 1..(k - 1) : args[j] \in FlagArgs(schema.flags[i])
            /\ \A i \in 1..Len(schema.options) :
                 optVars[i] # None =>
                   \E j \in 1..(k - 2) : args[j] \in OptionArgs(schema.options[i])
            /\ result[1] # "Exit"
            /\ IF failed
               THEN /\ result = <<"Err", <<"InvalidValue", POSITIONAL, args[stop]>>>>
                    /\ pc = "done"
               ELSE /\ result[1] = "Err" => result[2][1] = "MissingRequiredArgument"
                    /\ result[1] # "Running" => it = Len(args)

\* C1 witness: a flag-shaped token after `--` ended up in the positional
\* vector and the flag stayed unset.
C1_Witness ==
    /\ HasPositional
    /\ SentinelAt # 0
    /\ result[1] = "Ok"
    /\ \E j \in (SentinelAt + 1)..Len(args) : args[j] = TokVerbose
    /\ ~flagVars[1]
    /\ Len(posVar) >= 2

C2_Record ==
    /\ result[1] = "Ok" =>
         /\ \A i \in RequiredOptions : result[2].options[i] # None
         /\ \A i \in 1..Len(schema.flags) :
              result[2].flags[i] =>
                \E j \in 1..Len(args) :
                    trace[j] = "flag" /\ args[j] \in FlagArgs(schema.flags[i])
         /\ (\A j \in 1..Len(args) : trace[j] \notin {"positional", "drained"})
              => result[2].positional = <<>>
    /\ (result[1] = "Err" /\ result[2][1] = "MissingRequiredArgument") =>
         \E i \in RequiredOptions :
            /\ optVars[i] = None
            /\ result[2][2] = <<"-", "-">> \o to_arg_name(schema.options[i].name)

ScanComplete ==
    \/ pc \in {"scan", "drain"} /\ it = Len(args)
    \/ pc = "break"

C2_Finalization ==
    ScanComplete =>
        /\ pc' = "done"
        /\ IF \E i \in RequiredOptions : optVars[i] = None
           THEN result'[1] = "Err" /\ result'[2][1] = "MissingRequiredArgument"
           ELSE result'[1] = "Ok"

\* C2: when the scan completes without error, parse returns a record only
\* if every required option was set; otherwise the result is
\* MissingRequiredArgument naming `--` + the derived name of a required
\* option that was never set.  Flags and the positional field are not
\* checked: an unset flag is false, an unset positional is empty.
C2_RequiredOptionsChecked == []C2_Record /\ [][C2_Finalization]_vars

\* C2 witness: the first required option was given, the second was not.
C2_Witness ==
    /\ result = <<"Err", <<"MissingRequiredArgument",
                           <<"-","-","o","u","t","-","d","i","r">>>>>>
    /\ optVars[1] # None
    /\ ~flagVars[1]

\* C4: with a positional field, every token read in Scanning state that
\* equals no spelling and is not `--` is coerced and appended to the
\* positional vector, so parse never returns Unknown.
C4_PositionalCatchesAll ==
    HasPositional =>
        /\ ~(result[1] = "Err" /\ result[2][1] = "Unknown")
        /\ \A j \in 1..it :
             (Dispatched(j) /\ args[j] \notin Spellings \cup {Sentinel})
                => trace[j] = "positional"

\* C5: an option token read in Scanning state consumes exactly the one
\* token after it as its value and the scan resumes behind that token; an
\* option token that is the last token yields MissingOptionValue naming
\* the option.
C5_OptionConsumesOneValue ==
    \A j \in 1..Len(args) :
        /\ (Dispatched(j) /\ args[j] \in OptionSpellings) => trace[j] = "option"
        /\ trace[j] = "option" =>
             /\ args[j] \in OptionSpellings
             /\ IF j = Len(args)
                THEN /\ result = <<"Err", <<"MissingOptionValue", args[j]>>>>
                     /\ pc = "done"
                     /\ it = j
                ELSE /\ trace[j + 1] = "value"
                     /\ it >= j + 1
                     /\ j + 2 <= Len(args) => trace[j + 2] # "value"
                     /\ j + 2 <= it => Dispatched(j + 2) \/ trace[j + 2] = "drained"

\* C5 witness: a required option's name is the last token.
C5_Witness ==
    /\ Len(args) >= 2
    /\ args[Len(args)] = TokUser
    /\ ~schema.options[1].optional
    /\ result = <<"Err", <<"MissingOptionValue", TokUser>>>>

\* C6: without a positional field, the first token read in Scanning state
\* that equals no spelling and is not `--` halts parse with Unknown
\* carrying that token; no later token is examined.
C6_UnknownHalts ==
    ~HasPositional =>
        \A j \in 1..Len(args) :
            /\ (j <= it /\ trace[j] # "value"
                  /\ args[j] \notin Spellings \cup {Sentinel})
                 => trace[j] = "unknown"
            /\ trace[j] = "unknown" =>
                 /\ result = <<"Err", <<"Unknown", args[j]>>>>
                 /\ pc = "done"
                 /\ it = j
                 /\ \A n \in (j + 1)..Len(args) : trace[n] = "unread"

\* C6 witness: an unknown token followed by `--help`, which is not acted on.
C6_Witness ==
    /\ ~HasPositional
    /\ Len(args) >= 3
    /\ args[2] = TokBogus
    /\ args[3] = TokHelp
    /\ result = <<"Err", <<"Unknown", TokBogus>>>>

\* C8: without a positional field, `--` read in Scanning state stops the
\* scan: the remaining tokens are left unexamined, the values set before
\* are kept, and parse goes on to finalization and returns its result.
C8_SentinelStopsScan ==
    (~HasPositional /\ SentinelAt # 0) =>
        LET k == SentinelAt
        IN  /\ it = k
            /\ pc \in {"break", "done"}
            /\ \A j \in (k + 1)..Len(args) : trace[j] = "unread"
            /\ \A i \in 1..Len(schema.flags) :
                 flagVars[i] <=>
                   \E j \in 1..(k - 1) :
                      trace[j] = "flag" /\ args[j] \in FlagArgs(schema.flags[i])
            /\ \A i \in 1..Len(schema.options) :
                 optVars[i] # None <=>
                   \E j \in 1..(k - 2) :
                      trace[j] = "option" /\ args[j] \in OptionArgs(schema.options[i])
            /\ pc = "break" => result = <<"Running">>
            /\ pc = "done" =>
                 IF FinalResult = "Ok"
                 THEN result = <<"Ok", [flags |-> flagVars, options |-> optVars,
                                        positional |-> <<>>]>>
                 ELSE result[1] = "Err" /\ result[2][1] = "MissingRequiredArgument"

\* C8 witness: a flag, then `--`, then an unknown-looking token: the
\* record is returned with the flag set.
C8_Witness ==
    /\ ~HasPositional
    /\ SentinelAt # 0
    /\ SentinelAt < Len(args)
    /\ args[Len(args)] = TokBogus
    /\ result[1] = "Ok"
    /\ flagVars[1]

C10_Step ==
    (/\ Scanning
     /\ it + 1 < Len(args)
     /\ args[it + 1] \in OptionSpellings) =>
        LET i == OptionOf(args[it + 1])
            v == Coerce(schema.options[i].ty_help, Some(args[it + 2]), args[it + 1])
        IN  /\ it' = it + 2
            /\ flagVars' = flagVars
            /\ posVar' = posVar
            /\ IF v.ok
               THEN /\ optVars' = [optVars EXCEPT ![i] = Some(v.v)]
                    /\ result' = result
                    /\ pc' = "scan"
               ELSE /\ optVars' = optVars
                    /\ result' = <<"Err", v.e>>
                    /\ pc' = "done"

\* C10: the token right after a matched option token is taken as the
\* option's value whatever its spelling: it causes no help/version exit,
\* sets no flag, does not act as the sentinel and consumes no further
\* token.
C10_ValueNeverDispatched == [][C10_Step]_vars

\* C10 witness: ["--user", "--verbose"] gives user = "--verbose" and
\* verbose = false.
C10_Witness ==
    /\ args = <<TokUser, TokVerbose>>
    /\ result[1] = "Ok"
    /\ optVars[1] = Some(TokVerbose)
    /\ ~flagVars[1]

(***************************************************************************)
(* Properties of the de-duplication pass (checked under SpecDedupe)        *)
(***************************************************************************)
\* Every argument of the struct: the built-ins, then the fields as declared.
AllDeclared == BuiltinFlags \o fields

Collides(a, b) == a.name # b.name /\ a.short # None /\ a.short = b.short

HasCollision ==
    \E i, j \in 1..Len(AllDeclared) : Collides(AllDeclared[i], AllDeclared[j])

DeclIndex(n) == CHOOSE i \in 1..Len(AllDeclared) : AllDeclared[i].name = n

\* C3: a struct in which two arguments (help, version, user flags, user
\* options) resolve to the same short character is rejected with an error
\* that identifies the current argument and the prior owner of the
\* character, and no parser is produced; arguments without a short name
\* never collide; a collision on `h` names `help` as the prior owner.
C3_DuplicateShortRejected ==
    /\ compiled[1] = "Ok" => ~HasCollision
    /\ dpc = "done" =>
         IF HasCollision THEN compiled[1] = "Err" ELSE compiled = <<"Ok">>
    /\ compiled[1] = "Err" =>
         LET e == compiled[2]
         IN  /\ \E i, j \in 1..Len(AllDeclared) :
                   /\ AllDeclared[i].name = e.at
                   /\ AllDeclared[j].name = e.other
                   /\ AllDeclared[i].short = Some(e.ch)
                   /\ Collides(AllDeclared[i], AllDeclared[j])
             /\ e.ch = "h" => e.other = id_help

\* C3 witness: a user option resolving to -h is rejected naming help.
C3_Witness ==
    /\ compiled[1] = "Err"
    /\ compiled[2].ch = "h"
    /\ compiled[2].other = id_help
    /\ \E i \in 1..Len(fields) :
          fields[i].name = compiled[2].at /\ fields[i].kind = "option"

\* C9 as stated: the pass visits help, version, then all user arguments in
\* declaration order whatever their kind, so the error is raised on the
\* argument declared later and names the one declared earlier.
C9_DeclarationOrder ==
    compiled[1] = "Err" =>
        DeclIndex(compiled[2].other) < DeclIndex(compiled[2].at)

\* The order the pass is claimed (as amended) to visit the arguments in.
KindOrder ==
    BuiltinFlags \o SelectSeq(fields, IsFlag) \o SelectSeq(fields, IsOption)

KindIndex(n) == CHOOSE i \in 1..Len(KindOrder) : KindOrder[i].name = n

ShortsOf(sq) == { sq[i].short[1] : i \in {m \in 1..Len(sq) : sq[m].short # None} }

Visited ==
    IF dpc = "flags" THEN dk
    ELSE IF dpc = "options" THEN 2 + Len(SelectSeq(fields, IsFlag)) + dk
    ELSE IF compiled[1] = "Err" THEN KindIndex(compiled[2].at) - 1
    ELSE Len(KindOrder)

\* C9 (amended): the pass visits help and version, then the user flags in
\* declaration order, then the user options in declaration order; the error
\* is raised on the first argument in that order whose short character an
\* earlier one owns, so between a user flag and a user option wanting the
\* same character it is the option the error is raised on and the flag
\* that is named, whichever was declared first.
C9_FlagsThenOptions ==
    /\ DOMAIN dupes = ShortsOf(SubSeq(KindOrder, 1, Visited))
    /\ \A c \in DOMAIN dupes :
         \E i \in 1..Visited : KindOrder[i].name = dupes[c] /\ KindOrder[i].short = Some(c)
    /\ compiled[1] = "Err" =>
         LET e  == compiled[2]
             at == KindIndex(e.at)
         IN  /\ KindIndex(e.other) < at
             /\ \A i, j \in 1..(at - 1) : ~Collides(KindOrder[i], KindOrder[j])
             /\ \A i, j \in 1..Len(fields) :
                  (fields[i].name = e.at /\ fields[j].name = e.other
                     /\ fields[i].kind # fields[j].kind)
                    => fields[i].kind = "option"

\* C9 witness: the error is raised on an option declared before the flag
\* it names.
C9_Witness ==
    /\ compiled[1] = "Err"
    /\ \E i, j \in 1..Len(fields) :
          /\ i < j
          /\ fields[i].name = compiled[2].at
          /\ fields[i].kind = "option"
          /\ fields[j].name = compiled[2].other
          /\ fields[j].kind = "flag"

(***************************************************************************)
(* Properties of the help layout (checked under SpecHelp)                  *)
(***************************************************************************)
\* The lines of a newline-terminated text.
RECURSIVE SplitLines(_)
SplitLines(t) ==
    IF t = <<>> THEN <<>>
    ELSE LET nl == Min({i \in 1..Len(t) : t[i] = "\n"})
         IN  <<SubSeq(t, 1, nl - 1)>> \o SplitLines(SubSeq(t, nl + 1, Len(t)))

\* The section's alignment width as the layout rule defines it.
AlignWidth ==
    LET w(v) == Len(v.name) + Len(as_str(v.ty_help))
                  + (IF v.short = None THEN 0 ELSE 3)
        ws   == {0} \cup { w(views[i]) : i \in 1..Len(views) }
    IN  CHOOSE m \in ws : \A x \in ws : x <= m

\* C7: within one section every entry, with or without a short name, puts
\* the first line of its documentation at column alignment width + 6, and
\* every continuation line is indented by exactly that many spaces.
C7_DocColumnsAligned ==
    \A i \in 1..hk :
        LET lines == SplitLines(help[i])
            doc   == views[i].doc
            col   == AlignWidth + 6
        IN  /\ Len(lines) = Len(doc)
            /\ Len(lines[1]) = col + Len(doc[1])
            /\ SubSeq(lines[1], col + 1, Len(lines[1])) = doc[1]
            /\ \A n \in 2..Len(doc) : lines[n] = Repeat(col) \o doc[n]

\* The part of C7 the code does keep: entries that have a short name.
C7_ShortEntriesAligned ==
    \A i \in 1..hk :
        views[i].short # None =>
            LET lines == SplitLines(help[i])
                doc   == views[i].doc
                col   == AlignWidth + 6
            IN  /\ Len(lines) = Len(doc)
                /\ Len(lines[1]) = col + Len(doc[1])
                /\ \A n \in 2..Len(doc) : lines[n] = Repeat(col) \o doc[n]

====
